---- MODULE Spec2Model ----
(***************************************************************************)
(* Focus Firewall: the YouTube filtering content script.                   *)
(* Strings are sequences of one-character strings.                         *)
(***************************************************************************)
EXTENDS Integers, Sequences, FiniteSets, TLC

\* ---------------------------------------------------------------- bounds
MaxGoalLen == 3
MaxTitleLen == 4
NumItems == 2
MaxTimerIds == 3
MaxBurst == 2
MaxTextLen == 4
NumTabs == 3
MaxRequests == 2
MaxOverrun == 1

\* ------------------------------------------------------- program constants
\* setTimeout(scanVideos, 300): the debounce window, in ticks of 100ms.
DebounceTicks == 3

\* remainingSeconds = 5 * 60
CountdownSeconds == 300

\* ------------------------------------------------------------ characters
UpperSeq == <<"A","B","C","D","E","F","G","H","I","J","K","L","M","N","O","P","Q","R","S","T","U","V","W","X","Y","Z">>
LowerSeq == <<"a","b","c","d","e","f","g","h","i","j","k","l","m","n","o","p","q","r","s","t","u","v","w","x","y","z">>
DigitSet == {"0","1","2","3","4","5","6","7","8","9"}
LowerSet == {LowerSeq[i] : i \in 1..26}

\* String.prototype.toLowerCase, one character.
toLowerChar(c) ==
  IF \E i \in 1..26 : UpperSeq[i] = c
    THEN LowerSeq[CHOOSE i \in 1..26 : UpperSeq[i] = c]
    ELSE c

toLowerCase(s) == [i \in 1..Len(s) |-> toLowerChar(s[i])]

\* \s of the regular expressions, and the characters trim() strips.
IsSpace(c) == c = " "

\* .replace(/[^a-z0-9\s]/g, ' ')
replaceSpecial(s) ==
  [i \in 1..Len(s) |->
     IF s[i] \in LowerSet \/ s[i] \in DigitSet \/ IsSpace(s[i]) THEN s[i] ELSE " "]

\* .split(/\s+/): every maximal run of whitespace is one separator; a
\* separator at either end leaves an empty token there.
RECURSIVE splitFrom(_, _, _, _)
splitFrom(s, i, cur, acc) ==
  IF i > Len(s) THEN Append(acc, cur)
  ELSE IF IsSpace(s[i])
    THEN IF i > 1 /\ IsSpace(s[i-1])
           THEN splitFrom(s, i + 1, cur, acc)
           ELSE splitFrom(s, i + 1, <<>>, Append(acc, cur))
    ELSE splitFrom(s, i + 1, Append(cur, s[i]), acc)

split(s) == splitFrom(s, 1, <<>>, <<>>)

STOP_WORDS == {
    <<"t","h","e">>, <<"a">>, <<"a","n">>, <<"a","n","d">>, <<"o","r">>,
    <<"b","u","t">>, <<"i","n">>, <<"o","n">>, <<"a","t">>, <<"t","o">>,
    <<"f","o","r">>, <<"o","f">>, <<"w","i","t","h">>, <<"b","y">>,
    <<"f","r","o","m">>, <<"i","s">>, <<"i","t">>, <<"a","s">>, <<"b","e">>,
    <<"w","a","s">>, <<"a","r","e">>, <<"t","h","i","s">>,
    <<"t","h","a","t">>, <<"i">>, <<"m","y">>, <<"m","e">>, <<"w","e">>,
    <<"o","u","r">>, <<"y","o","u">>, <<"y","o","u","r">>, <<"a","m">>,
    <<"d","o">>, <<"d","o","e","s">>, <<"d","i","d">>, <<"w","i","l","l">>,
    <<"w","o","u","l","d">>, <<"c","o","u","l","d">>,
    <<"s","h","o","u","l","d">>, <<"c","a","n">>, <<"n","o","t">>,
    <<"n","o">>, <<"s","o">>, <<"i","f">>, <<"i","t","s">>,
    <<"t","h","a","n">>, <<"t","h","e","n">>, <<"j","u","s","t">>,
    <<"a","b","o","u","t">>, <<"i","n","t","o">>, <<"o","v","e","r">>,
    <<"a","f","t","e","r">>, <<"u","p">>, <<"d","o","w","n">>,
    <<"o","u","t">>, <<"o","f","f">>, <<"h","o","w">>, <<"w","h","a","t">>,
    <<"w","h","e","n">>, <<"w","h","e","r","e">>, <<"w","h","y">>,
    <<"w","h","i","c","h">>, <<"w","h","o">>, <<"a","l","l">>,
    <<"e","a","c","h">>, <<"s","o","m","e">>
  }

RECURSIVE filterSeq(_, _)
filterSeq(ws, i) ==
  IF i > Len(ws) THEN <<>>
  ELSE IF Len(ws[i]) > 2 /\ ws[i] \notin STOP_WORDS
    THEN <<ws[i]>> \o filterSeq(ws, i + 1)
    ELSE filterSeq(ws, i + 1)

\* As extractKeywords, but tokens of two characters are kept.
extractKeywords_keepShort(text) ==
  IF text = <<>> \/ text = <<"undefined">> THEN <<>>
  ELSE SelectSeq(split(replaceSpecial(toLowerCase(text))),
                 LAMBDA w : Len(w) > 1 /\ w \notin STOP_WORDS)

\* !text holds of the empty string and of an absent argument.
extractKeywords(text) ==
  IF text = <<>> \/ text = <<"undefined">> THEN <<>>
  ELSE filterSeq(split(replaceSpecial(toLowerCase(text))), 1)

\* String.prototype.includes
includes(s, k) ==
  \E i \in 0..(Len(s) - Len(k)) : SubSeq(s, i + 1, i + Len(k)) = k

isRelevant_caseSensitive(goal, videoTitle) ==
  IF goal = <<>> THEN TRUE
  ELSE LET keywords == extractKeywords(goal)
       IN IF Len(keywords) = 0 THEN TRUE
          ELSE \E j \in 1..Len(keywords) : includes(videoTitle, keywords[j])

\* isRelevant reads the global currentGoal; it is the first parameter here.
isRelevant(goal, videoTitle) ==
  IF goal = <<>> THEN TRUE
  ELSE LET keywords == extractKeywords(goal)
       IN IF Len(keywords) = 0 THEN TRUE
          ELSE LET titleLower == toLowerCase(videoTitle)
               IN \E j \in 1..Len(keywords) : includes(titleLower, keywords[j])

\* String.prototype.trim
RECURSIVE trimLeft(_)
trimLeft(s) == IF s # <<>> /\ IsSpace(Head(s)) THEN trimLeft(Tail(s)) ELSE s
RECURSIVE trimRight(_)
trimRight(s) ==
  IF s # <<>> /\ IsSpace(s[Len(s)]) THEN trimRight(SubSeq(s, 1, Len(s) - 1)) ELSE s
trim(s) == trimRight(trimLeft(s))

\* ------------------------------------------------------------- the page
\* The goals the engine is given: none, one with the keyword "ala", and one
\* made of a stop word.
EmptyStr == <<>>
GoalAla == <<"A", "l", "a">>
GoalAll == <<"a", "l", "l">>
Goals == {EmptyStr, GoalAla, GoalAll}

\* A title-bearing sub-element: its textContent and its title attribute.
\* null, as a value no string of characters equals.
NullAttr == <<"null">>
NoEl == [textContent |-> NullAttr, title |-> NullAttr]
El(text, attr) == [textContent |-> text, title |-> attr]

\* What the six querySelector calls of scanVideos return on an item, in the
\* order of the source: #video-title, #video-title-link, a#video-title,
\* [id="video-title"], h3 a, .title.
ShapeSel(shape) ==
  CASE shape = "none" -> <<NoEl, NoEl, NoEl, NoEl, NoEl, NoEl>>
    [] shape = "match" ->
         LET e == El(<<" ", "A", "L", "A", " ">>, NullAttr)
         IN <<e, NoEl, e, e, NoEl, NoEl>>
    [] shape = "other" ->
         LET e == El(<<"l", "l", "l">>, NullAttr)
         IN <<e, NoEl, NoEl, e, NoEl, NoEl>>
    [] shape = "attr" ->
         LET e == El(<<>>, <<"l", "a", "l">>)
         IN <<NoEl, e, NoEl, NoEl, NoEl, NoEl>>
    [] shape = "emptyFirst" ->
         <<El(<<>>, NullAttr), NoEl, NoEl, El(<<>>, NullAttr),
           El(<<"l", "l", "l">>, NullAttr), NoEl>>
    [] shape = "blank" ->
         LET e == El(<<" ", " ">>, <<"l", "l", "l">>)
         IN <<NoEl, NoEl, NoEl, NoEl, NoEl, e>>

AllShapes == {"none", "match", "other", "attr", "emptyFirst", "blank"}
\* The shapes of the items the page shows.
Shapes == {"none", "match", "other"}

NoItem == [shape |-> "NoItem", blurred |-> FALSE, overlays |-> 0]
Slots == 1..NumItems
NewItem(shape) == [shape |-> shape, blurred |-> FALSE, overlays |-> 0]

\* a || b || ... over the querySelector results: the first element found.
RECURSIVE firstEl(_, _)
firstEl(sel, i) ==
  IF i > Len(sel) THEN NoEl
  ELSE IF sel[i] # NoEl THEN sel[i] ELSE firstEl(sel, i + 1)

\* The title scanVideos extracts from the querySelector results; <<>> when
\* the item is skipped.
titleOf(sel) ==
  LET titleEl == firstEl(sel, 1)
  IN IF titleEl = NoEl THEN <<>>
     ELSE trim(IF titleEl.textContent # <<>> THEN titleEl.textContent
               ELSE IF titleEl.title # NullAttr THEN titleEl.title
               ELSE <<>>)

\* titleOf and isRelevant on the items and goals above, worked out once.
TitleTable == [sh \in AllShapes |-> titleOf(ShapeSel(sh))]
RelevantTable == [g \in Goals |-> [sh \in AllShapes |-> isRelevant(g, TitleTable[sh])]]

extractTitle(video) == TitleTable[video.shape]
relevant(goal, video) == RelevantTable[goal][video.shape]

\* ---------------------------------------------------- apply / remove marks
markIrrelevant_noGuard(item) ==
  [item EXCEPT !.blurred = TRUE, !.overlays = @ + 1]

\* The overlay goes under the thumbnail's parent or under the item itself;
\* both are descendants of the item, which is all markRelevant looks at.
markIrrelevant(item) ==
  IF item.blurred THEN item
  ELSE [item EXCEPT !.blurred = TRUE, !.overlays = @ + 1]

markRelevant(item) == [item EXCEPT !.blurred = FALSE, !.overlays = 0]

\* ------------------------------------------------------------------ scans
\* The outcome of one call: the page afterwards, the path taken, how often
\* isRelevant / markIrrelevant / markRelevant were called, and whether a
\* node was added under document.body.
Outcome(d, path, nRel, nIrr, nClr, added) ==
  [dom |-> d, path |-> path, classified |-> nRel, irr |-> nIrr, rel |-> nClr,
   added |-> added]

clearAllFilters_keep(d) == Outcome(d, "clear", 0, 0, 0, FALSE)

clearAllFilters(d) ==
  LET hit == {i \in Slots : d[i] # NoItem /\ d[i].blurred}
  IN Outcome([i \in Slots |-> IF i \in hit THEN markRelevant(d[i]) ELSE d[i]],
             "clear", 0, 0, Cardinality(hit), FALSE)

\* The callback of videos.forEach on one item: it touches that item only.
\* 'return' in it goes on to the next item.
Skipped(video) == video = NoItem \/ extractTitle(video) = <<>>
ToMark(goal, video) == ~Skipped(video) /\ ~relevant(goal, video)
ToUnmark(goal, video) == ~Skipped(video) /\ relevant(goal, video)

\* As forEachVideo, but an item without a title is taken for relevant.
forEachVideo_unmarkUntitled(goal, d, stop) ==
  LET seen == {i \in Slots : ~stop[i]}
  IN Outcome([i \in Slots |->
                IF i \notin seen \/ d[i] = NoItem THEN d[i]
                ELSE IF Skipped(d[i]) \/ relevant(goal, d[i]) THEN markRelevant(d[i])
                ELSE markIrrelevant(d[i])],
             "classify",
             Cardinality({i \in seen : ~Skipped(d[i])}),
             Cardinality({i \in seen : ToMark(goal, d[i])}),
             Cardinality({i \in seen : d[i] # NoItem /\ ~ToMark(goal, d[i])}),
             \E i \in seen : ToMark(goal, d[i]) /\ ~d[i].blurred)

\* As forEachVideo, but every call of markIrrelevant adds a badge node, on
\* an item that is marked already too.
forEachVideo_rebadge(goal, d, stop) ==
  LET seen == {i \in Slots : ~stop[i]}
  IN Outcome([i \in Slots |->
                IF i \notin seen \/ Skipped(d[i]) THEN d[i]
                ELSE IF relevant(goal, d[i]) THEN markRelevant(d[i])
                ELSE markIrrelevant(d[i])],
             "classify",
             Cardinality({i \in seen : ~Skipped(d[i])}),
             Cardinality({i \in seen : ToMark(goal, d[i])}),
             Cardinality({i \in seen : ToUnmark(goal, d[i])}),
             \E i \in seen : ToMark(goal, d[i]))

forEachVideo(goal, d, stop) ==
  LET seen == {i \in Slots : ~stop[i]}
  IN Outcome([i \in Slots |->
                IF i \notin seen \/ Skipped(d[i]) THEN d[i]
                ELSE IF relevant(goal, d[i]) THEN markRelevant(d[i])
                ELSE markIrrelevant(d[i])],
             "classify",
             Cardinality({i \in seen : ~Skipped(d[i])}),
             Cardinality({i \in seen : ToMark(goal, d[i])}),
             Cardinality({i \in seen : ToUnmark(goal, d[i])}),
             \E i \in seen : ToMark(goal, d[i]) /\ ~d[i].blurred)

\* No item is left out: forEach visits them all.
NoStop == [i \in Slots |-> FALSE]

\* An item without a title ends the loop: the later ones are left out.
StopAtUntitled(d) ==
  [i \in Slots |-> \E j \in Slots : j <= i /\ d[j] # NoItem /\ extractTitle(d[j]) = <<>>]

scanVideos_abort(enabled, goal, d) ==
  IF ~enabled \/ goal = <<>> THEN clearAllFilters(d)
  ELSE forEachVideo(goal, d, StopAtUntitled(d))

scanVideos_noClear(enabled, goal, d) ==
  IF ~enabled \/ goal = <<>> THEN clearAllFilters_keep(d)
  ELSE forEachVideo(goal, d, NoStop)

\* As scanVideos, but the guard tests the flag only.
scanVideos_enabledOnly(enabled, goal, d) ==
  IF ~enabled THEN clearAllFilters(d)
  ELSE forEachVideo(goal, d, NoStop)

scanVideos(enabled, goal, d) ==
  IF ~enabled \/ goal = <<>> THEN clearAllFilters(d)
  ELSE forEachVideo(goal, d, NoStop)

\* ----------------------------------------------------------------- timers
\* The timers of setTimeout that have not run yet: a handle and the ticks
\* left before the callback may run.  scanTimer = 0 stands for null.
TimerIds == 1..MaxTimerIds
Handles(ts) == {t.id : t \in ts}

\* setTimeout returns a handle that differs from every handle still held: the
\* pending timers' and the one in scanTimer.  Older handles are referred to
\* nowhere, so their values stand for new ones.
FreshId(used) ==
  IF TimerIds \ used = {} THEN MaxTimerIds + 1
  ELSE CHOOSE id \in TimerIds \ used : \A other \in TimerIds \ used : id <= other

setTimeout(t, delay) ==
  LET id == FreshId(Handles(t.timers) \cup {t.scanTimer})
  IN [scanTimer |-> id, timers |-> t.timers \cup {[id |-> id, left |-> delay]}]

clearTimeout(ts, id) == {x \in ts : x.id # id}

debouncedScan_noClear(t) == setTimeout(t, DebounceTicks)

debouncedScan_drop(t) ==
  IF t.scanTimer # 0 /\ t.scanTimer \in Handles(t.timers)
    THEN [t EXCEPT !.timers = clearTimeout(t.timers, t.scanTimer)]
    ELSE setTimeout(t, DebounceTicks)

debouncedScan_throttle(t) ==
  IF t.scanTimer # 0 /\ t.scanTimer \in Handles(t.timers) THEN t
  ELSE setTimeout(t, DebounceTicks)

\* t is the pair of scanTimer and the pending timers.
debouncedScan(t) ==
  setTimeout([t EXCEPT !.timers = IF t.scanTimer # 0
                                    THEN clearTimeout(t.timers, t.scanTimer)
                                    ELSE t.timers],
             DebounceTicks)

\* ------------------------------------------------------------------ state
VARIABLES
  currentGoal,   \* let currentGoal
  isEnabled,     \* let isEnabled
  scanTimer,     \* let scanTimer: a timer handle, 0 for null
  timers,        \* timers set and not yet run
  dom,           \* the items of the page, in document order
  href,          \* location.href
  lastUrl,       \* let lastUrl
  getState,      \* the GET_STATE request: "pending", "answered", "failed"
  last,          \* what the last step was and what it called
  burst,         \* the current burst of rescan triggers
  fn,            \* inputs and result of a direct call
  scanning,      \* the scanVideos call in progress: the item it is at
  storage,       \* chrome.storage.local of the background worker
  requests,      \* SET_GOAL / SET_ENABLED requests being handled
  channel,       \* chrome.tabs.sendMessage calls not yet settled
  received,      \* what the listener of each tab has been handed
  asked,         \* every request the background worker has received
  written,       \* the requests whose storage write has completed
  social         \* the reminder overlay of content/social.js

engineVars == <<currentGoal, isEnabled, scanTimer, timers, dom, href, lastUrl,
                getState, last, burst, fn>>
storeVars == <<storage, requests, channel, received, asked, written>>
\* What the YouTube engine's handlers never touch.
restVars == <<scanning, storeVars, social>>
vars == <<engineVars, restVars>>

\* ---------------------------------------------------------- input domains
\* A field the message does not carry (undefined).
Absent == <<"undefined">>
Urls == {"u1", "u2"}

GoalAlphabet == {"a", "l", "A", " ", "-"}
TitleAlphabet == {"a", "l", "A", " "}
StrUpTo(A, n) == UNION {[1..k -> A] : k \in 0..n}
TwoWordGoals ==
  {<<"a", "l", "a">> \o <<sep>> \o w : sep \in {" ", "-"},
                                     w \in {<<"l", "a", "l">>, <<"a", "l", "l">>}}
  \cup {<<"a", "l", "l">> \o <<" ">> \o <<"l", "a", "l">>}
NoCall == [goal |-> EmptyStr, title |-> EmptyStr, out |-> "none", kws |-> <<>>]

\* --------------------------------------------------------------- history
Step(op, arg, scans, o) ==
  [op |-> op, arg |-> arg, scans |-> scans, path |-> o.path,
   classified |-> o.classified, irr |-> o.irr, rel |-> o.rel]
NoScan(d) == Outcome(d, "none", 0, 0, 0, FALSE)

\* A trigger less than a debounce window after the previous one continues
\* the burst; a later one starts a new burst.
Trigger(b) ==
  IF b.len > 0 /\ b.since < DebounceTicks
    THEN [b EXCEPT !.since = 0, !.len = IF @ < MaxBurst THEN @ + 1 ELSE @]
    ELSE [since |-> 0, len |-> 1, scans |-> 0]
Fired(b) == [b EXCEPT !.scans = @ + 1]

\* The MutationObserver callback: it runs right after the step that added
\* nodes under document.body, before any other task.
Observed(t, added) == IF added THEN debouncedScan(t) ELSE t
Burst(b, added) == IF added THEN Trigger(b) ELSE b

Tmr == [scanTimer |-> scanTimer, timers |-> timers]

\* ------------------------------------- the other scripts' initial state
\* No scanVideos call is in progress.
NoScanning == [active |-> FALSE, next |-> 1, currentGoal |-> EmptyStr, isEnabled |-> TRUE]

\* The tabs that are open; the first has no content script listening.
Tabs == 1..NumTabs
NoListener == {1}
Listeners == Tabs \ NoListener

\* chrome.storage.local as onInstalled leaves it.
StorageInit == [focusGoal |-> EmptyStr, isEnabled |-> TRUE]

StoreInit ==
  /\ storage = StorageInit
  /\ requests = {}
  /\ channel = {}
  /\ received = [t \in Tabs |-> {}]
  /\ asked = {}
  /\ written = {}

\* The state content/social.js declares.  intervals are the setInterval
\* timers not cleared, showPending the setTimeout(showModal, 800) not yet
\* run, innerHTML the goal the modal shows (NoModal for ''), op and was the
\* last handler and what it found.
NoModal == <<"">>
SocialStart ==
  [currentGoal |-> EmptyStr, isEnabled |-> TRUE, countdownTimer |-> 0,
   remainingSeconds |-> 0, hostElement |-> FALSE, innerHTML |-> NoModal,
   pointerEvents |-> "none", intervals |-> {}, showPending |-> FALSE,
   getState |-> "pending", op |-> "init",
   was |-> [modal |-> FALSE, counting |-> FALSE]]

RestInit ==
  /\ scanning = NoScanning
  /\ StoreInit
  /\ social = SocialStart

\* ------------------------------------------------------------------- Init
EngineInit ==
  /\ currentGoal = EmptyStr
  /\ isEnabled = TRUE
  /\ scanTimer = 0
  /\ timers = {}
  /\ href = "u1"
  /\ lastUrl = href
  /\ getState = "pending"
  /\ last = Step("init", "-", 0, NoScan(<<>>))
  /\ burst = [since |-> DebounceTicks, len |-> 0, scans |-> 0]

Init ==
  /\ EngineInit
  /\ RestInit
  /\ dom \in [Slots -> {NoItem} \cup {NewItem(sh) : sh \in Shapes}]
  /\ fn = NoCall

\* ------------------------------------------------------- engine handlers
\* The page, the timers and the burst after a handler whose scan gave o and
\* which left the timers as t.
Finish(o, t, b) ==
  LET t2 == Observed(t, o.added)
  IN /\ dom' = o.dom
     /\ scanTimer' = t2.scanTimer
     /\ timers' = t2.timers
     /\ burst' = Burst(b, o.added)

\* The handler, had it gone through the debounce timer.
GoalUpdated_debounced(g) ==
  LET goal == IF g = Absent \/ g = EmptyStr THEN EmptyStr ELSE g
      t2 == debouncedScan(Tmr)
  IN /\ currentGoal' = goal
     /\ scanTimer' = t2.scanTimer
     /\ timers' = t2.timers
     /\ burst' = Trigger(burst)
     /\ last' = Step("GOAL_UPDATED", g, 0, NoScan(dom))
     /\ UNCHANGED <<restVars, isEnabled, dom, href, lastUrl, getState, fn>>

\* chrome.runtime.onMessage, message.type === 'GOAL_UPDATED'
GoalUpdated(g) ==
  LET goal == IF g = Absent \/ g = EmptyStr THEN EmptyStr ELSE g
      o == scanVideos(isEnabled, goal, dom)
  IN /\ currentGoal' = goal
     /\ Finish(o, Tmr, burst)
     /\ last' = Step("GOAL_UPDATED", g, 1, o)
     /\ UNCHANGED <<restVars, isEnabled, href, lastUrl, getState, fn>>

\* The handler, had it left the marks alone when switched off.
ToggleChanged_flagOnly(e) ==
  LET o == IF ~e THEN clearAllFilters_keep(dom) ELSE scanVideos(e, currentGoal, dom)
  IN /\ isEnabled' = e
     /\ Finish(o, Tmr, burst)
     /\ last' = Step("TOGGLE_CHANGED", e, IF e THEN 1 ELSE 0, o)
     /\ UNCHANGED <<restVars, currentGoal, href, lastUrl, getState, fn>>

\* chrome.runtime.onMessage, message.type === 'TOGGLE_CHANGED'
ToggleChanged(e) ==
  LET o == IF ~e THEN clearAllFilters(dom) ELSE scanVideos(e, currentGoal, dom)
  IN /\ isEnabled' = e
     /\ Finish(o, Tmr, burst)
     /\ last' = Step("TOGGLE_CHANGED", e, IF e THEN 1 ELSE 0, o)
     /\ UNCHANGED <<restVars, currentGoal, href, lastUrl, getState, fn>>

\* The callback of sendMessage({type: 'GET_STATE'}) with a response.
Responses == [focusGoal : Goals \cup {Absent}, isEnabled : {"true", "false", "undefined"}]

\* As GetStateResponse, but enabled only when the response says so.
GetStateResponse_strictTrue(r) ==
  LET goal == IF r.focusGoal = Absent THEN EmptyStr ELSE r.focusGoal
      e == r.isEnabled = "true"
      o == scanVideos(e, goal, dom)
  IN /\ getState = "pending"
     /\ getState' = "answered"
     /\ currentGoal' = goal
     /\ isEnabled' = e
     /\ Finish(o, Tmr, burst)
     /\ last' = Step("GET_STATE", r, 1, o)
     /\ UNCHANGED <<restVars, href, lastUrl, fn>>

GetStateResponse(r) ==
  LET goal == IF r.focusGoal = Absent THEN EmptyStr ELSE r.focusGoal
      e == r.isEnabled # "false"
      o == scanVideos(e, goal, dom)
  IN /\ getState = "pending"
     /\ getState' = "answered"
     /\ currentGoal' = goal
     /\ isEnabled' = e
     /\ Finish(o, Tmr, burst)
     /\ last' = Step("GET_STATE", r, 1, o)
     /\ UNCHANGED <<restVars, href, lastUrl, fn>>

\* As GetStateFailed, but a failed request switches the engine off.
GetStateFailed_disable ==
  /\ getState = "pending"
  /\ getState' = "failed"
  /\ isEnabled' = FALSE
  /\ last' = Step("GET_STATE_failed", "-", 0, NoScan(dom))
  /\ UNCHANGED <<restVars, currentGoal, scanTimer, timers, dom, href, lastUrl,
                 burst, fn>>

\* The callback with chrome.runtime.lastError set, or without a response.
GetStateFailed ==
  /\ getState = "pending"
  /\ getState' = "failed"
  /\ last' = Step("GET_STATE_failed", "-", 0, NoScan(dom))
  /\ UNCHANGED <<restVars, currentGoal, isEnabled, scanTimer, timers, dom, href, lastUrl,
                 burst, fn>>

\* The callback of setTimeout(scanVideos, 300); scanTimer keeps the handle.
TimerFire(t) ==
  LET o == scanVideos(isEnabled, currentGoal, dom)
  IN /\ t \in timers
     /\ t.left = 0
     /\ Finish(o, [scanTimer |-> scanTimer, timers |-> timers \ {t}], Fired(burst))
     /\ last' = Step("timer", burst.since, 1, o)
     /\ UNCHANGED <<restVars, currentGoal, isEnabled, href, lastUrl, getState, fn>>

\* As Poll, but a changed address is scanned at once instead of scheduled.
Poll_scanNow ==
  LET changed == href # lastUrl
      o == IF changed THEN scanVideos(isEnabled, currentGoal, dom) ELSE NoScan(dom)
  IN /\ lastUrl' = href
     /\ Finish(o, Tmr, burst)
     /\ last' = Step("poll", changed, IF changed THEN 1 ELSE 0, o)
     /\ UNCHANGED <<restVars, currentGoal, isEnabled, href, getState, fn>>

\* The setInterval callback that watches location.href.
Poll ==
  LET changed == href # lastUrl
      t2 == Observed(Tmr, changed)
  IN /\ lastUrl' = href
     /\ scanTimer' = t2.scanTimer
     /\ timers' = t2.timers
     /\ burst' = Burst(burst, changed)
     /\ last' = Step("poll", changed, 0, NoScan(dom))
     /\ UNCHANGED <<restVars, currentGoal, isEnabled, dom, href, getState, fn>>

\* ------------------------------------------------------------- the host
HostStep == Step("host", "-", 0, NoScan(dom))

\* The page adds an item: the observer sees addedNodes and schedules a scan.
HostInsertItem(i, sh) ==
  LET t2 == debouncedScan(Tmr)
  IN /\ dom[i] = NoItem
     /\ dom' = [dom EXCEPT ![i] = NewItem(sh)]
     /\ scanTimer' = t2.scanTimer
     /\ timers' = t2.timers
     /\ burst' = Trigger(burst)
     /\ last' = HostStep
     /\ UNCHANGED <<restVars, currentGoal, isEnabled, href, lastUrl, getState, fn>>

\* The page adds a node that is not an item.
HostInsertOther ==
  LET t2 == debouncedScan(Tmr)
  IN /\ scanTimer' = t2.scanTimer
     /\ timers' = t2.timers
     /\ burst' = Trigger(burst)
     /\ last' = HostStep
     /\ UNCHANGED <<restVars, currentGoal, isEnabled, dom, href, lastUrl, getState, fn>>

\* The page removes an item: a mutation without addedNodes.
HostRemoveItem(i) ==
  /\ dom[i] # NoItem
  /\ dom' = [dom EXCEPT ![i] = NoItem]
  /\ last' = HostStep
  /\ UNCHANGED <<restVars, currentGoal, isEnabled, scanTimer, timers, href, lastUrl,
                 getState, burst, fn>>

\* The page rewrites the title elements of an item it keeps (a recycled
\* renderer); the observer sees it only if nodes were added.
HostRetitle(i, sh, seen) ==
  LET t2 == Observed(Tmr, seen)
  IN /\ dom[i] # NoItem
     /\ dom[i].shape # sh
     /\ dom' = [dom EXCEPT ![i].shape = sh]
     /\ scanTimer' = t2.scanTimer
     /\ timers' = t2.timers
     /\ burst' = Burst(burst, seen)
     /\ last' = HostStep
     /\ UNCHANGED <<restVars, currentGoal, isEnabled, href, lastUrl, getState, fn>>

\* Navigation inside the single-page application.
Navigate(u) ==
  /\ u # href
  /\ href' = u
  /\ last' = HostStep
  /\ UNCHANGED <<restVars, currentGoal, isEnabled, scanTimer, timers, dom, lastUrl,
                 getState, burst, fn>>

\* 100ms pass.  A timer whose time is up may still run late.
Tick ==
  /\ timers' = {[t EXCEPT !.left = IF @ > 0 THEN @ - 1 ELSE 0] : t \in timers}
  /\ burst' = [burst EXCEPT !.since = IF @ < DebounceTicks THEN @ + 1 ELSE @]
  /\ UNCHANGED <<restVars, currentGoal, isEnabled, scanTimer, dom, href, lastUrl,
                 getState, last, fn>>

\* One step of the engine or of its environment, the inputs drawn from the
\* given goals, responses, slots and shapes.
NextOver(G, R, SL, SH) ==
  \/ \E g \in G : GoalUpdated(g)
  \/ \E e \in BOOLEAN : ToggleChanged(e)
  \/ \E r \in R : GetStateResponse(r)
  \/ GetStateFailed
  \/ \E t \in timers : TimerFire(t)
  \/ Poll
  \/ \E i \in SL, sh \in SH : HostInsertItem(i, sh)
  \/ HostInsertOther
  \/ \E i \in SL : HostRemoveItem(i)
  \/ \E i \in SL, sh \in SH, seen \in BOOLEAN : HostRetitle(i, sh, seen)
  \/ \E u \in Urls : Navigate(u)
  \/ Tick

Next == NextOver(Goals \cup {Absent}, Responses, Slots, Shapes)

Spec == Init /\ [][Next]_vars

\* --------------------------------------- direct calls of extractKeywords
KwAlphabet == {"a", "l", "A", "1", " ", "-"}

KwInit ==
  /\ EngineInit
  /\ RestInit
  /\ dom = [i \in Slots |-> NoItem]
  /\ fn \in [goal : StrUpTo(KwAlphabet, MaxTextLen) \cup TwoWordGoals \cup {Absent},
             title : {EmptyStr}, out : {"none"}, kws : {<<>>}]

CallExtractKeywords ==
  /\ fn.out = "none"
  /\ fn' = [fn EXCEPT !.out = "keywords", !.kws = extractKeywords(fn.goal)]
  /\ UNCHANGED <<restVars, currentGoal, isEnabled, scanTimer, timers, dom, href, lastUrl,
                 getState, last, burst>>

NextKw == CallExtractKeywords

SpecKw == KwInit /\ [][NextKw]_vars

\* ---------------------------------------------- a scan, item by item
\* scanVideos is a synchronous function: from its first line to its return
\* it holds the one thread, and the event loop starts the next task (a
\* message handler, a timer callback) only from an empty stack.
StackEmpty_yields == TRUE

StackEmpty == ~scanning.active

\* What the steps of a scan leave alone.
scanFrame == <<scanTimer, timers, href, lastUrl, last, burst, fn, storeVars, social>>

\* The forEach callback on one item; isRelevant reads currentGoal anew.
classifyItem(goal, video) ==
  IF Skipped(video) THEN video
  ELSE IF relevant(goal, video) THEN markRelevant(video)
  ELSE markIrrelevant(video)

\* The first lines of scanVideos, called with the state the handler has
\* just set: the clear path returns at once, the other enters the loop.
scanVideosBegins(enabled, goal) ==
  IF ~enabled \/ goal = <<>>
    THEN /\ dom' = clearAllFilters(dom).dom
         /\ scanning' = [scanning EXCEPT !.next = 1]
    ELSE /\ dom' = dom
         /\ scanning' = [active |-> TRUE, next |-> 1, currentGoal |-> goal,
                         isEnabled |-> enabled]

GoalUpdatedTask(g) ==
  LET goal == IF g = Absent \/ g = EmptyStr THEN EmptyStr ELSE g
  IN /\ StackEmpty
     /\ currentGoal' = goal
     /\ scanVideosBegins(isEnabled, goal)
     /\ UNCHANGED <<isEnabled, getState, scanFrame>>

ToggleChangedTask(e) ==
  /\ StackEmpty
  /\ isEnabled' = e
  /\ scanVideosBegins(e, currentGoal)
  /\ UNCHANGED <<currentGoal, getState, scanFrame>>

GetStateResponseTask(r) ==
  LET goal == IF r.focusGoal = Absent THEN EmptyStr ELSE r.focusGoal
      e == r.isEnabled # "false"
  IN /\ StackEmpty
     /\ getState = "pending"
     /\ getState' = "answered"
     /\ currentGoal' = goal
     /\ isEnabled' = e
     /\ scanVideosBegins(e, goal)
     /\ UNCHANGED scanFrame

\* The debounce timer's callback.
TimerTask ==
  /\ StackEmpty
  /\ scanVideosBegins(isEnabled, currentGoal)
  /\ UNCHANGED <<currentGoal, isEnabled, getState, scanFrame>>

\* One turn of videos.forEach.
ForEachStep ==
  /\ scanning.active
  /\ scanning.next <= NumItems
  /\ dom' = [dom EXCEPT ![scanning.next] = classifyItem(currentGoal, @)]
  /\ scanning' = [scanning EXCEPT !.next = @ + 1]
  /\ UNCHANGED <<currentGoal, isEnabled, getState, scanFrame>>

\* scanVideos returns.
ScanReturns ==
  /\ scanning.active
  /\ scanning.next > NumItems
  /\ scanning' = [scanning EXCEPT !.active = FALSE]
  /\ UNCHANGED <<currentGoal, isEnabled, dom, getState, scanFrame>>

NextScan ==
  \/ \E g \in Goals \cup {Absent} : GoalUpdatedTask(g)
  \/ \E e \in BOOLEAN : ToggleChangedTask(e)
  \/ \E r \in Responses : GetStateResponseTask(r)
  \/ TimerTask
  \/ ForEachStep
  \/ ScanReturns

SpecScan == Init /\ [][NextScan]_vars

\* ------------------------------------------- direct calls of isRelevant
RelInit ==
  /\ RestInit
  /\ currentGoal = EmptyStr
  /\ isEnabled = TRUE
  /\ scanTimer = 0
  /\ timers = {}
  /\ href = "u1"
  /\ lastUrl = "u1"
  /\ getState = "pending"
  /\ last = Step("init", "-", 0, NoScan(<<>>))
  /\ burst = [since |-> DebounceTicks, len |-> 0, scans |-> 0]
  /\ dom = [i \in Slots |-> NoItem]
  /\ fn \in [goal : StrUpTo(GoalAlphabet, MaxGoalLen) \cup TwoWordGoals,
             title : StrUpTo(TitleAlphabet, MaxTitleLen), out : {"none"},
             kws : {<<>>}]

CallIsRelevant ==
  /\ fn.out = "none"
  /\ fn' = [fn EXCEPT !.out = IF isRelevant(fn.goal, fn.title) THEN "true" ELSE "false"]
  /\ UNCHANGED <<restVars, currentGoal, isEnabled, scanTimer, timers, dom, href, lastUrl,
                 getState, last, burst>>

NextRel == CallIsRelevant

SpecRel == RelInit /\ [][NextRel]_vars

\* Fairness of the event loop: time passes, and a timer whose time is up
\* gets its turn.  The environment is the same with fewer inputs: one goal
\* with a keyword, one response, one slot, items with and without a title.
LiveInit ==
  /\ EngineInit
  /\ RestInit
  /\ dom = [i \in Slots |-> NoItem]
  /\ fn = NoCall

NextLive ==
  NextOver({GoalAla, Absent}, {[focusGoal |-> GoalAla, isEnabled |-> "true"]},
           {1}, {"other", "none"})

SpecLive ==
  /\ LiveInit
  /\ [][NextLive]_vars
  /\ WF_vars(Tick)
  /\ WF_vars(\E t \in timers : TimerFire(t))

\* ------------------------------------------- the background service worker
\* What the background worker's handlers leave alone.
storeFrame == <<engineVars, scanning, social>>

\* The messages the popup sends.  A message carries its one field; the
\* other is written here with a fixed value that nothing reads.
SetMessages ==
  {[type |-> "SET_GOAL", goal |-> g, isEnabled |-> TRUE] : g \in {GoalAla, EmptyStr}}
  \cup {[type |-> "SET_ENABLED", goal |-> EmptyStr, isEnabled |-> e] : e \in BOOLEAN}

Request(id, msg) ==
  [id |-> id, type |-> msg.type, goal |-> msg.goal, isEnabled |-> msg.isEnabled]

\* The message chrome.tabs.sendMessage is given for tab t.
Notification(r, t) ==
  [tab |-> t, id |-> r.id,
   type |-> IF r.type = "SET_GOAL" THEN "GOAL_UPDATED" ELSE "TOGGLE_CHANGED",
   goal |-> r.goal, isEnabled |-> r.isEnabled]

\* onMessage, case 'SET_GOAL' / 'SET_ENABLED': chrome.storage.local.set is
\* called and the listener returns.
ReceiveSet(msg) ==
  LET r == Request(Cardinality(asked) + 1, msg)
  IN /\ Cardinality(asked) < MaxRequests
     /\ asked' = asked \cup {r}
     /\ requests' = requests \cup {[req |-> r, stage |-> "writing"]}
     /\ UNCHANGED <<storage, channel, received, written, storeFrame>>

\* The callback of storage.local.set: the value is stored, chrome.tabs.query
\* is called and the response is sent.
WriteDone(p) ==
  /\ p \in requests
  /\ p.stage = "writing"
  /\ storage' = IF p.req.type = "SET_GOAL"
                  THEN [storage EXCEPT !.focusGoal = p.req.goal]
                  ELSE [storage EXCEPT !.isEnabled = p.req.isEnabled]
  /\ written' = written \cup {p.req.id}
  /\ requests' = (requests \ {p}) \cup {[p EXCEPT !.stage = "querying"]}
  /\ UNCHANGED <<channel, received, asked, storeFrame>>

\* As QueryDone, but the first tab whose send fails ends the loop.
QueryDone_stopAtFailure(p) ==
  /\ p \in requests
  /\ p.stage = "querying"
  /\ channel' = channel \cup {Notification(p.req, t) :
                                t \in {u \in Tabs : \A v \in NoListener : u < v}}
  /\ requests' = requests \ {p}
  /\ UNCHANGED <<storage, received, asked, written, storeFrame>>

\* The callback of chrome.tabs.query({}): one sendMessage per tab.
QueryDone(p) ==
  /\ p \in requests
  /\ p.stage = "querying"
  /\ channel' = channel \cup {Notification(p.req, t) : t \in Tabs}
  /\ requests' = requests \ {p}
  /\ UNCHANGED <<storage, received, asked, written, storeFrame>>

\* The tab's onMessage listener is handed the message.
Deliver(m) ==
  /\ m \in channel
  /\ m.tab \in Listeners
  /\ received' = [received EXCEPT ![m.tab] = @ \cup {m}]
  /\ channel' = channel \ {m}
  /\ UNCHANGED <<storage, requests, asked, written, storeFrame>>

\* No listener in the tab: the promise rejects and .catch(() => {}) takes it.
Rejected(m) ==
  /\ m \in channel
  /\ m.tab \in NoListener
  /\ channel' = channel \ {m}
  /\ UNCHANGED <<storage, requests, received, asked, written, storeFrame>>

NextStore ==
  \/ \E msg \in SetMessages : ReceiveSet(msg)
  \/ \E p \in requests : WriteDone(p)
  \/ \E p \in requests : QueryDone(p)
  \/ \E m \in channel : Deliver(m)
  \/ \E m \in channel : Rejected(m)

\* Fairness: a storage write and a tab query complete, and a sent message
\* reaches a listening tab.
SpecStore ==
  /\ LiveInit
  /\ [][NextStore]_vars
  /\ WF_vars(\E p \in requests : WriteDone(p))
  /\ WF_vars(\E p \in requests : QueryDone(p))
  /\ WF_vars(\E m \in channel : Deliver(m))

\* ------------------------------------- the reminder overlay (social.js)
\* What the overlay's handlers leave alone.
socialFrame == <<engineVars, scanning, storeVars>>

ModalShown(s) == s.innerHTML # NoModal
Was(s) == [modal |-> ModalShown(s), counting |-> s.intervals # {}]

\* A new host has an empty shadow root and lets clicks through.
createShadowHost(s) ==
  IF s.hostElement THEN s
  ELSE [s EXCEPT !.hostElement = TRUE, !.innerHTML = NoModal, !.pointerEvents = "none"]

\* shadowRoot.innerHTML = getModalHTML(currentGoal): the modal of that goal,
\* with new buttons and their listeners.
showModal(s) ==
  IF ~s.isEnabled THEN s
  ELSE [createShadowHost(s) EXCEPT !.pointerEvents = "auto",
                                   !.innerHTML = s.currentGoal]

hideModal(s) ==
  IF s.hostElement THEN [s EXCEPT !.innerHTML = NoModal, !.pointerEvents = "none"]
  ELSE s

clearTimer(s) ==
  [s EXCEPT !.intervals = IF s.countdownTimer # 0 THEN @ \ {s.countdownTimer} ELSE @,
            !.countdownTimer = 0,
            !.remainingSeconds = 0]

\* As startTimer, but the running interval is not cleared first.
startTimer_noClear(s) ==
  LET id == FreshId(s.intervals \cup {s.countdownTimer})
  IN [s EXCEPT !.remainingSeconds = CountdownSeconds,
               !.countdownTimer = id,
               !.intervals = @ \cup {id}]

startTimer(s) ==
  LET c == clearTimer(s)
      id == FreshId(c.intervals \cup {s.countdownTimer})
  IN [c EXCEPT !.remainingSeconds = CountdownSeconds,
               !.countdownTimer = id,
               !.intervals = @ \cup {id}]

\* As teardown, but the countdown is left running.
teardown_keepTimer(s) ==
  LET h == hideModal(s)
  IN IF h.hostElement THEN [h EXCEPT !.hostElement = FALSE] ELSE h

\* The host is still in the document, where createShadowHost put it.
teardown(s) ==
  LET h == hideModal(clearTimer(s))
  IN IF h.hostElement THEN [h EXCEPT !.hostElement = FALSE] ELSE h

\* The handler has run: what it was and what it found.
Handled(s, op) == [s EXCEPT !.op = op, !.was = Was(social)]

\* chrome.runtime.onMessage, message.type === 'GOAL_UPDATED'
SocialGoalUpdated(g) ==
  LET s == [social EXCEPT !.currentGoal = IF g = Absent THEN EmptyStr ELSE g]
  IN /\ social' = Handled(IF s.hostElement /\ ModalShown(s) THEN showModal(s) ELSE s,
                          "GOAL_UPDATED")
     /\ UNCHANGED socialFrame

\* chrome.runtime.onMessage, message.type === 'TOGGLE_CHANGED'
SocialToggleChanged(e) ==
  LET s == [social EXCEPT !.isEnabled = e]
  IN /\ social' = Handled(IF ~e THEN teardown(s) ELSE showModal(s), "TOGGLE_CHANGED")
     /\ UNCHANGED socialFrame

\* The GET_STATE callback with a response: setTimeout(showModal, 800).
SocialGetStateResponse(r) ==
  LET e == r.isEnabled # "false"
      s == [social EXCEPT !.currentGoal = IF r.focusGoal = Absent THEN EmptyStr
                                          ELSE r.focusGoal,
                          !.isEnabled = e,
                          !.getState = "answered",
                          !.showPending = IF e THEN TRUE ELSE @]
  IN /\ social.getState = "pending"
     /\ social' = Handled(s, "GET_STATE")
     /\ UNCHANGED socialFrame

\* The callback with chrome.runtime.lastError set, or without a response.
SocialGetStateFailed ==
  /\ social.getState = "pending"
  /\ social' = Handled([social EXCEPT !.getState = "failed"], "GET_STATE_failed")
  /\ UNCHANGED socialFrame

\* The 800ms are over.
ShowTimeout ==
  /\ social.showPending
  /\ social' = Handled(showModal([social EXCEPT !.showPending = FALSE]), "timeout")
  /\ UNCHANGED socialFrame

\* The user clicks "Continue for 5 minutes" on the modal.
ClickContinue ==
  /\ ModalShown(social)
  /\ social' = Handled(startTimer(hideModal(social)), "continue")
  /\ UNCHANGED socialFrame

\* The user clicks "Go Back": history.back() or window.close() leave the
\* script as it is, if the page stays at all.
ClickBack ==
  /\ ModalShown(social)
  /\ social' = Handled(social, "back")
  /\ UNCHANGED socialFrame

\* The setInterval callback, one second after the previous one.
IntervalTick(id) ==
  LET s == [social EXCEPT !.remainingSeconds = @ - 1]
  IN /\ id \in social.intervals
     /\ social.remainingSeconds > -MaxOverrun
     /\ social' = Handled(IF s.remainingSeconds <= 0 THEN showModal(clearTimer(s)) ELSE s,
                          "interval")
     /\ UNCHANGED socialFrame

NextSocialOver(G, R) ==
  \/ \E g \in G : SocialGoalUpdated(g)
  \/ \E e \in BOOLEAN : SocialToggleChanged(e)
  \/ \E r \in R : SocialGetStateResponse(r)
  \/ SocialGetStateFailed
  \/ ShowTimeout
  \/ ClickContinue
  \/ ClickBack
  \/ \E id \in social.intervals : IntervalTick(id)

NextSocial == NextSocialOver({GoalAla, Absent}, Responses)

\* Fairness: a running interval's callback gets its turn every second.
SpecSocial ==
  /\ LiveInit
  /\ [][NextSocial]_vars
  /\ WF_vars(\E id \in social.intervals : IntervalTick(id))

\* ------------------------------- the engine of one tab and the background
\* The tab the YouTube engine runs in.
EngineTab == 2

\* onMessage, case 'GET_STATE': the callback of storage.local.get answers
\* with what the storage held when it was read.
StateResponse ==
  [tab |-> EngineTab, id |-> 0, type |-> "STATE",
   goal |-> storage.focusGoal, isEnabled |-> storage.isEnabled]

AnswerGetState ==
  /\ getState = "pending"
  /\ \A m \in channel : m.type # "STATE"
  /\ channel' = channel \cup {StateResponse}
  /\ UNCHANGED <<storage, requests, received, asked, written, storeFrame>>

\* The engine's listener, or its GET_STATE callback, is handed message m;
\* the handler runs as in the engine alone.
EngineHandles(m) ==
  LET goal == IF m.type = "TOGGLE_CHANGED" THEN currentGoal ELSE m.goal
      e == IF m.type = "GOAL_UPDATED" THEN isEnabled ELSE m.isEnabled
      o == IF m.type = "TOGGLE_CHANGED" /\ ~e THEN clearAllFilters(dom)
           ELSE scanVideos(e, goal, dom)
  IN /\ m \in channel
     /\ m.tab = EngineTab
     /\ channel' = channel \ {m}
     /\ received' = [received EXCEPT ![m.tab] = @ \cup {m}]
     /\ currentGoal' = goal
     /\ isEnabled' = e
     /\ getState' = IF m.type = "STATE" THEN "answered" ELSE getState
     /\ Finish(o, Tmr, burst)
     /\ last' = Step(m.type, m.id, IF m.type = "TOGGLE_CHANGED" /\ ~e THEN 0 ELSE 1, o)
     /\ UNCHANGED <<href, lastUrl, fn, scanning, social, storage, requests,
                    asked, written>>

NextSync ==
  \/ \E msg \in SetMessages : ReceiveSet(msg)
  \/ \E p \in requests : WriteDone(p)
  \/ \E p \in requests : QueryDone(p)
  \/ AnswerGetState
  \/ \E m \in channel : EngineHandles(m)
  \/ \E m \in channel : m.tab # EngineTab /\ Deliver(m)
  \/ \E m \in channel : Rejected(m)

SpecSync == LiveInit /\ [][NextSync]_vars

\* The engine on a page whose one item takes every title layout above.
NextShapes ==
  NextOver({GoalAla, Absent}, {[focusGoal |-> GoalAla, isEnabled |-> "true"]},
           {1}, AllShapes)

SpecShapes == LiveInit /\ [][NextShapes]_vars

\* ------------------------ direct calls of markIrrelevant / markRelevant
CallMarkIrrelevant(i) ==
  /\ dom[i] # NoItem
  /\ dom' = [dom EXCEPT ![i] = markIrrelevant(@)]
  /\ last' = Step("markIrrelevant", [item |-> i, was |-> dom[i].blurred], 0, NoScan(dom))
  /\ UNCHANGED <<restVars, currentGoal, isEnabled, scanTimer, timers, href, lastUrl,
                 getState, burst, fn>>

CallMarkRelevant(i) ==
  /\ dom[i] # NoItem
  /\ dom' = [dom EXCEPT ![i] = markRelevant(@)]
  /\ last' = Step("markRelevant", [item |-> i, was |-> dom[i].blurred], 0, NoScan(dom))
  /\ UNCHANGED <<restVars, currentGoal, isEnabled, scanTimer, timers, href, lastUrl,
                 getState, burst, fn>>

NextMark ==
  \/ \E i \in Slots : CallMarkIrrelevant(i)
  \/ \E i \in Slots : CallMarkRelevant(i)

SpecMark == Init /\ [][NextMark]_vars

\* ================================================================ claims
Present(i) == dom[i] # NoItem
Titled(i) == Present(i) /\ extractTitle(dom[i]) # <<>>
Marked(i) == Present(i) /\ dom[i].blurred
NoneMarked == \A i \in Slots : ~dom[i].blurred /\ dom[i].overlays = 0

\* Some keyword occurs in the title, letter case aside.
SomeKeywordIn(kws, title) ==
  \E j \in 1..Len(kws) : \E off \in 0..(Len(title) - Len(kws[j])) :
    \A k \in 1..Len(kws[j]) : toLowerChar(title[off + k]) = toLowerChar(kws[j][k])

\* The relevance predicate of the specification.
RelevantRef(goal, title) ==
  LET kws == extractKeywords(goal)
  IN kws = <<>> \/ SomeKeywordIn(kws, title)

\* C1: after a scan with the engine enabled and a non-empty keyword set, an
\* item whose title can be extracted is marked exactly when no keyword occurs
\* in its lower-cased title, whatever the other items look like.
C1_ScanClassifiesEveryTitledItem ==
  (last.scans = 1 /\ isEnabled /\ extractKeywords(currentGoal) # <<>>) =>
    \A i \in Slots :
      Titled(i) =>
        (dom[i].blurred <=>
           ~SomeKeywordIn(extractKeywords(currentGoal), extractTitle(dom[i])))

\* A scan met an item without a title and marked a later one.
C1_Witness ==
  /\ last.scans = 1 /\ last.path = "classify" /\ last.irr > 0
  /\ extractKeywords(currentGoal) # <<>>
  /\ \E i, j \in Slots : i < j /\ Present(i) /\ ~Titled(i) /\ Titled(j) /\ Marked(j)

\* C2: a call of isRelevant returns what the reference predicate says: true
\* when the goal yields no keyword, else true exactly when some keyword is a
\* case-insensitive substring of the title.
C2_IsRelevantAgreesWithReference ==
  fn.out # "none" => ((fn.out = "true") <=> RelevantRef(fn.goal, fn.title))

\* A keyword found inside a longer title that is not all lower case.
C2_Witness ==
  /\ fn.out = "true"
  /\ extractKeywords(fn.goal) # <<>>
  /\ toLowerCase(fn.title) # fn.title
  /\ Len(fn.title) > Len(extractKeywords(fn.goal)[1])

\* C3: a scan that runs while the engine is disabled or the goal is empty
\* leaves no marked item and classifies nothing.
C3_DisabledScanClearsAll ==
  (last.scans = 1 /\ (~isEnabled \/ currentGoal = EmptyStr)) =>
    /\ NoneMarked
    /\ last.path = "clear"
    /\ last.classified = 0
    /\ last.irr = 0

\* Such a scan that found marked items.
C3_Witness ==
  /\ last.scans = 1 /\ (~isEnabled \/ currentGoal = EmptyStr)
  /\ last.path = "clear" /\ last.rel > 0

\* C4: a scan with the engine enabled and an empty keyword set leaves no item
\* marked and classifies nothing.
C4_EmptyKeywordScanClearsAll ==
  (last.scans = 1 /\ isEnabled /\ extractKeywords(currentGoal) = <<>>) =>
    /\ NoneMarked
    /\ last.classified = 0

\* The same, of the marks alone.
C4_EmptyKeywordScanLeavesNoMark ==
  (last.scans = 1 /\ isEnabled /\ extractKeywords(currentGoal) = <<>>) => NoneMarked

\* C5: triggers that each come less than a debounce window after the one
\* before form a burst; a burst gets exactly one debounced scan, which runs
\* no sooner than one window after the last trigger: while the burst's timer
\* is pending no scan of the burst has run, and once it has run none is
\* pending.
C5_BurstGetsOneScan ==
  /\ burst.scans <= 1
  /\ burst.len > 0 =>
       \/ burst.scans = 0 /\ Cardinality(timers) = 1
       \/ burst.scans = 1 /\ timers = {} /\ burst.since = DebounceTicks
  /\ last.op = "timer" => last.arg = DebounceTicks

\* A burst of several triggers, and its one scan has just run.
C5_Witness ==
  burst.len >= 2 /\ burst.scans = 1 /\ last.op = "timer"

\* C6: at most one debounced-scan timer is pending, and it is the one
\* scanTimer names; a trigger that comes while one is pending leaves one
\* fresh timer with the whole window ahead.
C6_OneTimerPending ==
  /\ Cardinality(timers) <= 1
  /\ \A t \in timers : t.id = scanTimer
  /\ (burst.len >= 2 /\ burst.since = 0) =>
       timers = {[id |-> scanTimer, left |-> DebounceTicks]}

\* A trigger has just replaced a pending timer.
C6_Witness ==
  burst.len >= 2 /\ burst.since = 0 /\ timers # {}

\* C7: the GOAL_UPDATED handler sets the goal from the payload and scans once
\* in the same step, so that on its return every item with a title is
\* annotated by the new goal (nothing is marked while the engine is off).
C7_GoalUpdatedScansAtOnce ==
  last.op = "GOAL_UPDATED" =>
    /\ currentGoal = (IF last.arg = Absent THEN EmptyStr ELSE last.arg)
    /\ last.scans = 1
    /\ \A i \in Slots :
         Titled(i) =>
           (dom[i].blurred <=>
              (isEnabled /\ ~RelevantRef(currentGoal, extractTitle(dom[i]))))

\* The handler marked an item under a new goal.
C7_Witness ==
  /\ last.op = "GOAL_UPDATED" /\ last.irr > 0
  /\ \E i \in Slots : Titled(i) /\ Marked(i)

\* C8: the TOGGLE_CHANGED handler sets the flag from the payload; switched
\* off, it unmarks every item in the same step and classifies nothing;
\* switched on, it runs one scan.
C8_ToggleChangedActs ==
  last.op = "TOGGLE_CHANGED" =>
    /\ isEnabled = last.arg
    /\ ~last.arg =>
         NoneMarked /\ last.scans = 0 /\ last.classified = 0 /\ last.irr = 0
    /\ last.arg =>
         /\ last.scans = 1
         /\ \A i \in Slots :
              Titled(i) =>
                (dom[i].blurred <=> ~RelevantRef(currentGoal, extractTitle(dom[i])))

\* Switching off removed marks.
C8_Witness ==
  last.op = "TOGGLE_CHANGED" /\ ~last.arg /\ last.rel > 0

\* C9: after any sequence of markIrrelevant / markRelevant calls an item has
\* one badge and is de-emphasized if the last call on it was markIrrelevant,
\* and has no badge and no de-emphasis if it was markRelevant; no item ever
\* has two badges, and a repeated call changes nothing.
C9_MarksAreIdempotent ==
  /\ [](\A i \in Slots : dom[i].overlays <= 1)
  /\ [](last.op = "markIrrelevant" =>
          dom[last.arg.item].blurred /\ dom[last.arg.item].overlays = 1)
  /\ [](last.op = "markRelevant" =>
          ~dom[last.arg.item].blurred /\ dom[last.arg.item].overlays = 0)
  /\ [][(/\ last'.op \in {"markIrrelevant", "markRelevant"}
          /\ last'.arg.was = (last'.op = "markIrrelevant")) => dom' = dom]_vars

\* markIrrelevant called on an item that was already marked.
C9_Witness ==
  last.op = "markIrrelevant" /\ last.arg.was /\ Marked(last.arg.item)

\* C10: a pending debounced rescan goes away only by running or by being
\* replaced by a fresh timer, and it does go away.
C10_PendingRescanRunsOrIsReplaced ==
  /\ [][\A t \in timers :
          t.id \notin Handles(timers') =>
            \/ last'.op = "timer" /\ last'.scans = 1
            \/ \E u \in timers' : u.id = scanTimer' /\ u.left = DebounceTicks]_vars
  /\ \A id \in TimerIds : (id \in Handles(timers)) ~> (id \notin Handles(timers))

\* The second timer set has run its scan and nothing is pending.
C10_Witness ==
  last.op = "timer" /\ last.scans = 1 /\ timers = {} /\ scanTimer = 2

\* C11: the GET_STATE response seeds the goal with focusGoal (the empty
\* string when absent) and the flag with true unless isEnabled is exactly
\* false, and runs one scan with the seeded values in the same step: on its
\* return every item with a title is annotated by them.
C11_GetStateSeedsAndScans ==
  last.op = "GET_STATE" =>
    /\ currentGoal = (IF last.arg.focusGoal = Absent THEN EmptyStr
                      ELSE last.arg.focusGoal)
    /\ isEnabled = (last.arg.isEnabled # "false")
    /\ last.scans = 1
    /\ \A i \in Slots :
         Titled(i) =>
           (dom[i].blurred <=>
              (isEnabled /\ ~RelevantRef(currentGoal, extractTitle(dom[i]))))

\* A response without isEnabled left the engine on, and the scan marked an
\* item under the seeded goal.
C11_Witness ==
  /\ last.op = "GET_STATE" /\ last.arg.isEnabled = "undefined"
  /\ last.arg.focusGoal = GoalAla /\ last.irr > 0
  /\ \E i \in Slots : Titled(i) /\ Marked(i)

\* The state the engine is constructed with.
Defaults == currentGoal = EmptyStr /\ isEnabled = TRUE

\* C12: while GET_STATE is unanswered or has failed and no notification has
\* arrived, the goal stays "", the flag stays true and no item is marked; a
\* failed request is never sent again or answered; and a GOAL_UPDATED or
\* TOGGLE_CHANGED that arrives after the failure still sets the state and
\* rescans.
C12_FailedGetStateKeepsDefaults ==
  /\ Defaults /\ NoneMarked
  /\ [][(/\ getState # "answered" /\ getState' # "answered"
         /\ Defaults
         /\ last'.op \notin {"GOAL_UPDATED", "TOGGLE_CHANGED"})
        => (Defaults' /\ NoneMarked')]_vars
  /\ [][getState = "failed" => getState' = "failed"]_vars
  /\ []((getState = "failed" /\ last.op = "GOAL_UPDATED") =>
          /\ currentGoal = (IF last.arg = Absent THEN EmptyStr ELSE last.arg)
          /\ last.scans = 1
          /\ \A i \in Slots :
               Titled(i) =>
                 (dom[i].blurred <=>
                    (isEnabled /\ ~RelevantRef(currentGoal, extractTitle(dom[i])))))
  /\ []((getState = "failed" /\ last.op = "TOGGLE_CHANGED") =>
          /\ isEnabled = last.arg
          /\ last.scans = (IF last.arg THEN 1 ELSE 0)
          /\ ~last.arg => NoneMarked)

\* After the request failed, a notification set a goal and the scan marked
\* an item.
C12_Witness ==
  /\ getState = "failed" /\ last.op = "GOAL_UPDATED" /\ last.arg = GoalAla
  /\ currentGoal = GoalAla /\ last.irr > 0

\* What every poll tick does: the last observed address becomes the current
\* one and no scan runs in the tick itself; a changed address leaves exactly
\* one pending timer, the one in scanTimer, with the full debounce window;
\* an unchanged address sets no timer and postpones none.
PollTickSchedules ==
  /\ [](last.op = "poll" =>
          /\ lastUrl = href
          /\ last.scans = 0
          /\ last.arg =>
               timers = {[id |-> scanTimer, left |-> DebounceTicks - burst.since]})
  /\ [][(last'.op = "poll" /\ ~last'.arg) =>
          /\ scanTimer' = scanTimer
          /\ dom' = dom
          /\ \A t \in timers' : \E s \in timers : s.id = t.id /\ t.left <= s.left]_vars
  /\ [][(last'.op = "poll" /\ last'.arg) => dom' = dom]_vars

\* C13 as stated: what a poll tick does, and every address change seen at a
\* poll tick is eventually followed by a scan.
C13_PollChangeIsFollowedByScan ==
  /\ PollTickSchedules
  /\ (last.op = "poll" /\ last.arg) ~> (last.scans = 1)

\* C13, amended: what a poll tick does, and the timer that an address change
\* seen at a poll tick sets eventually goes away, which it does only by
\* running the scan or by being replaced by the fresh timer of a later
\* trigger.
C13_PollChangeSchedulesRescan ==
  /\ PollTickSchedules
  /\ [][\A t \in timers :
          t.id \notin Handles(timers') =>
            \/ last'.scans = 1
            \/ \E u \in timers' : u.id = scanTimer' /\ u.left = DebounceTicks]_vars
  /\ \A id \in TimerIds :
       (last.op = "poll" /\ last.arg /\ scanTimer = id) ~>
         (id \notin Handles(timers))

\* The rescan that a poll tick scheduled after a navigation has run.
C13_Witness ==
  /\ last.op = "timer" /\ last.scans = 1 /\ timers = {}
  /\ lastUrl = "u2" /\ href = "u2" /\ burst.len = 1

\* The character that lower-casing and the replacement leave in place of c.
NormChar(c) ==
  LET l == toLowerChar(c)
  IN IF l \in LowerSet \cup DigitSet THEN l ELSE " "

\* The maximal runs of characters that are letters or digits, as pairs of
\* their first and last position.
Runs(text) ==
  {r \in (1..Len(text)) \X (1..Len(text)) :
     /\ r[1] <= r[2]
     /\ \A k \in r[1]..r[2] : NormChar(text[k]) # " "
     /\ r[1] = 1 \/ NormChar(text[r[1] - 1]) = " "
     /\ r[2] = Len(text) \/ NormChar(text[r[2] + 1]) = " "}

Word(text, r) == [k \in 1..(r[2] - r[1] + 1) |-> NormChar(text[r[1] + k - 1])]

\* The keywords of the specification, in the order of the text.
KeywordsRef(text) ==
  LET kept == {r \in Runs(text) :
                 r[2] - r[1] + 1 > 2 /\ Word(text, r) \notin STOP_WORDS}
  IN [n \in 1..Cardinality(kept) |->
        Word(text, CHOOSE r \in kept :
                     Cardinality({q \in kept : q[1] < r[1]}) = n - 1)]

\* C14: extractKeywords returns, in order, the runs of letters and digits of
\* the lower-cased text that are longer than two characters and are no stop
\* word, and nothing for an empty or absent text; every keyword is lowercase
\* alphanumeric, has at least three characters and is no stop word.
C14_ExtractKeywordsAgreesWithReference ==
  fn.out = "keywords" =>
    /\ fn.kws = (IF fn.goal = Absent THEN <<>> ELSE KeywordsRef(fn.goal))
    /\ fn.goal \in {EmptyStr, Absent} => fn.kws = <<>>
    /\ \A j \in 1..Len(fn.kws) :
         /\ Len(fn.kws[j]) >= 3
         /\ fn.kws[j] \notin STOP_WORDS
         /\ \A k \in 1..Len(fn.kws[j]) : fn.kws[j][k] \in LowerSet \cup DigitSet

\* Two keywords came out of a text with a separator that is not whitespace.
C14_Witness ==
  /\ fn.out = "keywords" /\ Len(fn.kws) = 2
  /\ \E k \in 1..Len(fn.goal) : fn.goal[k] = "-"

\* C16: a scan on the classify path (engine enabled, goal set) leaves an
\* item from which no title can be extracted as it was: marked or not, with
\* the same number of badges.
C16_UntitledItemIsLeftAlone ==
  [][last'.path = "classify" =>
       \A i \in Slots : (Present(i) /\ ~Titled(i)) => dom'[i] = dom[i]]_vars

\* A scan classified the page and an item without a title is still marked.
C16_Witness ==
  /\ last.path = "classify" /\ last.scans = 1 /\ isEnabled
  /\ \E i \in Slots : Present(i) /\ ~Titled(i) /\ Marked(i) /\ dom[i].overlays = 1

\* What one candidate sub-element yields: its trimmed text, or else its
\* trimmed title attribute.
Yield(el) ==
  IF el = NoEl THEN <<>>
  ELSE IF trim(el.textContent) # <<>> THEN trim(el.textContent)
  ELSE IF el.title # NullAttr THEN trim(el.title)
  ELSE <<>>

\* The title of the first candidate, in priority order, that yields one.
FirstNonEmptyTitle(sel) ==
  IF \A k \in 1..Len(sel) : Yield(sel[k]) = <<>> THEN <<>>
  ELSE Yield(sel[CHOOSE k \in 1..Len(sel) :
                   Yield(sel[k]) # <<>> /\ \A j \in 1..(k - 1) : Yield(sel[j]) = <<>>])

TitleRefTable == [sh \in AllShapes |-> FirstNonEmptyTitle(ShapeSel(sh))]

\* C20: a scan on the classify path classifies every item by the title of the
\* first candidate sub-element, in priority order, that yields a non-empty
\* title; only an item none of whose candidates yields one is skipped.
C20_FirstNonEmptyTitleWins ==
  (last.path = "classify" /\ last.scans = 1) =>
    \A i \in Slots :
      (Present(i) /\ TitleRefTable[dom[i].shape] # <<>>) =>
        /\ extractTitle(dom[i]) = TitleRefTable[dom[i].shape]
        /\ dom[i].blurred <=> ~RelevantRef(currentGoal, TitleRefTable[dom[i].shape])

\* A scan has just returned: nothing ran since.
ScanReturned == ~scanning.active /\ scanning.next = NumItems + 1

\* C15: while a scan runs, the goal and the flag are the ones it started
\* with; every step taken while it runs is its own next item or its return,
\* never a handler or the start of another scan; and when it returns every
\* item with a title is annotated by that one pair of values.
C15_ScanSeesOneGoalAndFlag ==
  /\ [](scanning.active =>
          currentGoal = scanning.currentGoal /\ isEnabled = scanning.isEnabled)
  /\ [][scanning.active =>
          /\ scanning'.currentGoal = scanning.currentGoal
          /\ scanning'.isEnabled = scanning.isEnabled
          /\ \/ scanning'.active /\ scanning'.next = scanning.next + 1
             \/ ~scanning'.active /\ scanning'.next = scanning.next /\ dom' = dom]_vars
  /\ [](ScanReturned =>
          \A i \in Slots :
            Titled(i) =>
              (dom[i].blurred <=>
                 ~RelevantRef(scanning.currentGoal, extractTitle(dom[i]))))

\* A scan classified two items against its goal: one is marked, one is not.
C15_Witness ==
  /\ ScanReturned /\ scanning.currentGoal = GoalAla /\ currentGoal = GoalAla
  /\ \E i, j \in Slots : Titled(i) /\ Marked(i) /\ Titled(j) /\ ~Marked(j)

\* Every request the background worker can be given.
AllRequests == {Request(id, msg) : id \in 1..MaxRequests, msg \in SetMessages}

\* The stored value is the one request r asked for.
Stored(r) ==
  IF r.type = "SET_GOAL" THEN storage.focusGoal = r.goal
  ELSE storage.isEnabled = r.isEnabled

\* C17: a notification is sent only for a request whose write has completed,
\* and the write stores the requested value; when the tab query returns, the
\* notification of the request, with its value, is sent to every open tab; a
\* send that fails takes no other message with it; and every request is
\* followed by its notification reaching every tab that listens.
C17_PersistThenNotifyEveryTab ==
  /\ [](\A m \in channel \cup UNION {received[t] : t \in Tabs} :
          m.id \in written /\ \E r \in asked : m = Notification(r, m.tab))
  /\ [][\A p \in requests :
          (p.stage = "writing" /\ p \notin requests') =>
            p.req.id \in written' /\ Stored(p.req)']_vars
  /\ [][\A p \in requests :
          (p.stage = "querying" /\ p \notin requests') =>
            \A t \in Tabs : Notification(p.req, t) \in channel']_vars
  /\ [][\A m \in channel : m \notin channel' =>
          /\ channel \ {m} \subseteq channel'
          /\ m.tab \in Listeners => m \in received'[m.tab]]_vars
  /\ \A r \in AllRequests :
       (r \in asked) ~> (\A t \in Listeners : Notification(r, t) \in received[t])

\* Both listening tabs have the notification of a stored goal, and the send
\* to the tab without a listener has failed.
C17_Witness ==
  \E r \in asked :
    /\ r.type = "SET_GOAL" /\ r.goal = GoalAla /\ storage.focusGoal = GoalAla
    /\ \A t \in Listeners : Notification(r, t) \in received[t]
    /\ \A m \in channel : m.id # r.id

\* C18: when the overlay's TOGGLE_CHANGED handler has run with isEnabled =
\* false, the modal has no content, no interval runs and remainingSeconds is
\* 0, whether the modal was showing, a countdown was running, both or
\* neither when the message came.
C18_ToggleOffRemovesModalAndTimer ==
  (social.op = "TOGGLE_CHANGED" /\ ~social.isEnabled) =>
    /\ ~ModalShown(social)
    /\ social.pointerEvents = "none"
    /\ ~social.hostElement
    /\ social.intervals = {}
    /\ social.countdownTimer = 0
    /\ social.remainingSeconds = 0

\* The message came while the modal was showing over a running countdown.
C18_Witness ==
  /\ social.op = "TOGGLE_CHANGED" /\ ~social.isEnabled
  /\ social.was.modal /\ social.was.counting

\* C19: after Continue the modal is hidden and one countdown runs, from 300;
\* never do two run, so Continue over a running countdown restarts it; each
\* interval callback takes one second off; the callback that reaches zero
\* clears the timer and, the overlay being enabled, shows the modal; and
\* after Continue the modal does come back, unless the overlay is switched
\* off first.
C19_ContinueStartsOneCountdown ==
  /\ [](social.op = "continue" =>
          /\ ~ModalShown(social)
          /\ social.remainingSeconds = CountdownSeconds
          /\ social.countdownTimer # 0
          /\ social.intervals = {social.countdownTimer})
  /\ [](Cardinality(social.intervals) <= 1)
  /\ [][social'.op = "interval" =>
          /\ social'.remainingSeconds = social.remainingSeconds - 1
          /\ social.remainingSeconds > 1 =>
               /\ social'.intervals = social.intervals
               /\ social'.innerHTML = social.innerHTML
          /\ social.remainingSeconds = 1 =>
               /\ social'.intervals = {}
               /\ social'.countdownTimer = 0
               /\ social.isEnabled => ModalShown(social')]_vars
  /\ (social.op = "continue") ~> (ModalShown(social) \/ ~social.isEnabled)

\* The countdown has run out and the modal is back.
C19_Witness ==
  /\ social.op = "interval" /\ social.remainingSeconds = 0
  /\ ModalShown(social) /\ social.intervals = {} /\ ~social.was.modal

\* C21: in every state, if the engine is off or the goal is the empty string
\* then no item is marked; and a step that marks an item ends with the
\* engine on and a goal set.
C21_NoMarkWhileOffOrGoalless ==
  /\ []((isEnabled = FALSE \/ currentGoal = EmptyStr) => NoneMarked)
  /\ [][\A i \in Slots :
          (dom'[i].blurred /\ ~dom[i].blurred) =>
            (isEnabled' = TRUE /\ currentGoal' # EmptyStr)]_vars

\* The goal was emptied over a page with marked items: the handler unmarked
\* them and the items are still there.
C21_Witness ==
  /\ last.op = "GOAL_UPDATED" /\ currentGoal = EmptyStr /\ isEnabled
  /\ last.rel > 0 /\ NoneMarked
  /\ \E i \in Slots : Titled(i)

\* Every item is annotated as a scan with the present goal and flag leaves
\* it.
Settled ==
  /\ (isEnabled = FALSE \/ currentGoal = EmptyStr) => NoneMarked
  /\ \A i \in Slots :
       Titled(i) =>
         (dom[i].blurred <=>
            (isEnabled /\ ~RelevantRef(currentGoal, extractTitle(dom[i]))))

\* The step is the callback of a debounce timer.
TimerRuns ==
  /\ last'.op = "timer"
  /\ \E t \in timers : t.left = 0 /\ t.id \notin Handles(timers')

\* The step is the engine's own: a timer callback, a poll tick, or time
\* passing.  The host inserts nothing, the address stays, no message comes.
EngineAlone ==
  \/ TimerRuns
  \/ last'.op = "poll" /\ href' = href
  \/ /\ last'.op = last.op
     /\ dom' = dom /\ href' = href /\ lastUrl' = lastUrl
     /\ currentGoal' = currentGoal /\ isEnabled' = isEnabled
     /\ getState' = getState
     /\ Handles(timers') = Handles(timers)
     /\ \A t \in timers' : \E s \in timers : s.id = t.id /\ t.left <= s.left

\* C22: a scan sets a timer only if it has itself added a badge; a timer
\* scan over a page that is annotated already changes nothing and sets no
\* timer; and once only the engine takes steps, there comes a state from
\* which no timer is pending any more.
C22_EngineComesToRest ==
  /\ [][(last'.scans = 1 /\ last'.op # "timer" /\
         \E u \in timers' : u.id \notin Handles(timers)) =>
          \E i \in Slots : dom'[i].blurred /\ ~dom[i].blurred]_vars
  /\ [][(TimerRuns /\ timers' # {}) =>
          \E i \in Slots : dom'[i].blurred /\ ~dom[i].blurred]_vars
  /\ [][(TimerRuns /\ Settled) => (dom' = dom /\ timers' = {})]_vars
  /\ (<>[][EngineAlone]_vars) => <>[](timers = {})

\* The timer that a scan's own badge set has run: its scan called
\* markIrrelevant on the marked item, added nothing and left no timer.
C22_Witness ==
  /\ last.op = "timer" /\ last.scans = 1 /\ last.irr > 0 /\ last.path = "classify"
  /\ timers = {} /\ burst.scans = 1
  /\ \E i \in Slots : Marked(i) /\ dom[i].overlays = 1

\* Nothing is under way between the background worker and the engine: no
\* request is being handled, no message is in flight, GET_STATE is answered.
Quiescent == requests = {} /\ channel = {} /\ getState = "answered"

\* C23: whenever nothing is under way between the background worker and the
\* engine, the engine's goal and flag are the stored ones, in whatever order
\* the GET_STATE response and the notifications arrived.
C23_EngineConvergesToStore ==
  Quiescent => (currentGoal = storage.focusGoal /\ isEnabled = storage.isEnabled)

\* C24: in every reachable state of the reminder overlay, a visible modal
\* or a running countdown means that isEnabled is true.
C24_ModalOrCountdownMeansEnabled ==
  (ModalShown(social) \/ social.intervals # {}) => social.isEnabled

\* C25: while the countdown started by "Continue" is running, the modal is
\* hidden.
C25_CountdownRunsBehindHiddenModal ==
  social.intervals # {} => ~ModalShown(social)

====
